---- MODULE Spec2Model ----
(***************************************************************************)
(* einx/expr/stage3.py: the concrete expression tree (Axis, List,          *)
(* Concatenation, Composition, Marker), the resolver solve, and the        *)
(* rewrite engine expr_map with the operations built on it.                *)
(*                                                                         *)
(* A tree is a record with a field kind.  The value of an inner node is a  *)
(* function of its children fixed at construction (ListValue,              *)
(* ConcatenationValue below), so trees carry values at the axes only.      *)
(* The parent back-reference of a node is modelled by the sequence of the  *)
(* kinds of its ancestors, nearest first, that a traversal carries along.  *)
(* Where the identity of a node matters (which object a parent reference   *)
(* points to, whether two trees share a node) the nodes are objects in a   *)
(* heap instead: see "objects" below.                                      *)
(* An exception is the record Raise(exc); it propagates through every      *)
(* constructor and through every list of expressions.                      *)
(***************************************************************************)
EXTENDS Integers, Sequences, FiniteSets, TLC

VARIABLES
    stack,          \* the expressions built so far, the newest last
    op,             \* the last step taken on the stack
    arg,            \* the tree the last rewrite operation was given
    expressions,    \* the symbolic roots handed to solve
    values,         \* the shapes handed to solve
    solved,         \* what solve did: not called, raised, or returned
    node,           \* the List or Concatenation constructed from given values
    heap,           \* the objects allocated so far, an object's identity its index
    tree,           \* the root of the tree t the rewrite operations are called on
    before,         \* the heap as it was when t was first handed to an operation
    results         \* what each call returned or raised, the oldest first

vars == <<stack, op, arg, expressions, values, solved, node, heap, tree, before, results>>

objectVars == <<heap, tree, before, results>>

rewriteVars == <<stack, op, arg>>

solveVars == <<expressions, values, solved>>

(* ------------------------------ bounds --------------------------------- *)

\* Most nodes of the trees under construction.
MaxNodes == 4
\* Most children given to one List or Concatenation constructor call.
MaxChildren == 2
\* Most roots handed to one call of solve.
MaxRoots == 2


(* --------------------------- generic helpers --------------------------- *)

RECURSIVE Flatten(_)
\* [c for l in ls for c in l]
Flatten(ls) == IF ls = <<>> THEN <<>> ELSE Head(ls) \o Flatten(Tail(ls))

RECURSIVE SeqSum(_)
SeqSum(s) == IF s = <<>> THEN 0 ELSE Head(s) + SeqSum(Tail(s))

Raise(exc) == [kind |-> "Raise", exc |-> exc]

IsRaise(e) == e.kind = "Raise"

HasRaise(es) == \E i \in 1..Len(es) : IsRaise(es[i])

FirstRaise(es) == es[CHOOSE i \in 1..Len(es) : IsRaise(es[i]) /\ \A j \in 1..(i-1) : ~IsRaise(es[j])]

None == [kind |-> "None"]

(* --------------------------- expression tree --------------------------- *)

\* The name given to an axis constructed with name None: "unnamed.<id>".
UnnamedName == "unnamed."

\* The name argument None of Axis(None, value).
NoName == "None"

Axis(name, value) == [kind |-> "Axis", name |-> IF name = NoName THEN UnnamedName ELSE name, value |-> value]

is_unnamed(e) == e.name = UnnamedName

RECURSIVE ExprLen(_)
\* __len__
ExprLen(e) ==
    CASE e.kind = "List" -> SeqSum([i \in 1..Len(e.children) |-> ExprLen(e.children[i])])
      [] e.kind = "Marker" -> ExprLen(e.inner)
      [] OTHER -> 1

Composition(inner) ==
    IF IsRaise(inner) THEN inner
    ELSE [kind |-> "Composition", inner |-> inner]

List(children) ==
    IF HasRaise(children) THEN FirstRaise(children)
    ELSE IF \E i \in 1..Len(children) : children[i].kind = "List"
         THEN Raise("ValueError")
         ELSE [kind |-> "List", children |-> children]

ListMaybe(l) == IF Len(l) = 1 THEN l[1] ELSE List(l)

Concatenation(children) ==
    IF HasRaise(children) THEN FirstRaise(children)
    ELSE IF Len(children) = 0 THEN Raise("ValueError")
    ELSE IF \E i \in 1..Len(children) : ExprLen(children[i]) # 1
         THEN Raise("ValueError")
         ELSE [kind |-> "Concatenation", children |-> children]

ConcatenationMaybe(l) == IF Len(l) = 1 THEN l[1] ELSE Concatenation(l)

Marker(inner) ==
    IF IsRaise(inner) THEN inner
    ELSE IF ExprLen(inner) = 0 THEN Raise("ValueError")
         ELSE [kind |-> "Marker", inner |-> inner]

RECURSIVE deepcopy(_)
\* __deepcopy__: the same tree rebuilt through the constructors.
deepcopy(e) ==
    CASE e.kind = "Axis" -> Axis(e.name, e.value)
      [] e.kind = "Composition" -> Composition(deepcopy(e.inner))
      [] e.kind = "Marker" -> Marker(deepcopy(e.inner))
      [] e.kind = "List" -> List([i \in 1..Len(e.children) |-> deepcopy(e.children[i])])
      [] e.kind = "Concatenation" -> Concatenation([i \in 1..Len(e.children) |-> deepcopy(e.children[i])])
      [] OTHER -> e

RECURSIVE all(_)
\* all(): the nodes of the tree in pre-order.
all(e) ==
    CASE e.kind \in {"Composition", "Marker"} -> <<e>> \o all(e.inner)
      [] e.kind \in {"List", "Concatenation"} -> <<e>> \o Flatten([i \in 1..Len(e.children) |-> all(e.children[i])])
      [] OTHER -> <<e>>

get_axes(e) == SelectSeq(all(e), LAMBDA x : x.kind = "Axis")

(* ---------------------------- rewrite engine --------------------------- *)

CONTINUE == 1
COPY_AND_STOP == 2
REPLACE_AND_STOP == 3
REPLACE_AND_CONTINUE == 4

\* What a visitor hands back: t is None, or ret is an expression, a Python
\* list of expressions (kind "list") or None; rpar is the parent chain of
\* the object ret.
NoReturn == [none |-> TRUE, ret |-> None, signal |-> CONTINUE, rpar |-> <<>>]

Return(ret, signal, rpar) == [none |-> FALSE, ret |-> ret, signal |-> signal, rpar |-> rpar]

PyList(items) == [kind |-> "list", items |-> items]

\* decompose descending into Concatenations as into any other node.
decompose_into_concatenations(expr, par) ==
    IF expr.kind = "Composition" THEN Return(expr.inner, REPLACE_AND_CONTINUE, <<"Composition">> \o par)
    ELSE NoReturn

decompose_f(expr, par) ==
    IF expr.kind = "Composition" THEN Return(expr.inner, REPLACE_AND_CONTINUE, <<"Composition">> \o par)
    ELSE IF expr.kind = "Concatenation" THEN Return(None, COPY_AND_STOP, <<>>)
    ELSE NoReturn

\* demark stopping at the content of the Marker it replaces.
demark_and_stop(expr, par) ==
    IF expr.kind = "Marker" THEN Return(expr.inner, REPLACE_AND_STOP, <<"Marker">> \o par)
    ELSE NoReturn

demark_f(expr, par) ==
    IF expr.kind = "Marker" THEN Return(expr.inner, REPLACE_AND_CONTINUE, <<"Marker">> \o par)
    ELSE NoReturn

\* any_parent_is(expr, pred) with pred = isinstance(_, Marker), include_self.
is_marked(expr, par) == expr.kind = "Marker" \/ \E i \in 1..Len(par) : par[i] = "Marker"

RECURSIVE is_concat_child(_)
is_concat_child(par) ==
    par # <<>> /\ (Head(par) = "Concatenation" \/ (Head(par) = "Marker" /\ is_concat_child(Tail(par))))

\* The predicates handed to remove and mark: a predicate is a record.
TrivialPred == [p |-> "unnamed_trivial", classes |-> {}]
NotMarkedPred == [p |-> "not_marked", classes |-> {}]
ClassPred(classes) == [p |-> "class", classes |-> classes]

\* What a node-local predicate can tell apart: the kind, and an axis's name.
Class(expr) == IF expr.kind = "Axis" THEN expr.name ELSE expr.kind

\* The lambda without its test for an unnamed axis.
any_trivial(expr, par) ==
    expr.kind = "Axis" /\ expr.value = 1 /\ ~is_concat_child(par)

\* The lambda remove_unnamed_trivial_axes hands to remove.
unnamed_trivial(expr, par) ==
    expr.kind = "Axis" /\ is_unnamed(expr) /\ expr.value = 1 /\ ~is_concat_child(par)

\* The lambda get_unmarked hands to remove.
not_is_marked(expr, par) == ~is_marked(expr, par)

pred_holds(pred, expr, par) ==
    CASE pred.p = "unnamed_trivial" -> unnamed_trivial(expr, par)
      [] pred.p = "not_marked" -> not_is_marked(expr, par)
      [] pred.p = "class" -> Class(expr) \in pred.classes

remove_f(expr, par, pred) ==
    IF pred_holds(pred, expr, par) THEN Return(PyList(<<>>), REPLACE_AND_STOP, <<>>)
    ELSE NoReturn

mark_f(expr, par, pred) ==
    IF expr.kind # "Marker" /\ (par = <<>> \/ Head(par) # "Marker") /\ pred_holds(pred, expr, par)
    THEN Return(Marker(deepcopy(expr)), REPLACE_AND_CONTINUE, <<>>)
    ELSE NoReturn

\* A visitor with its extra arguments bound (outer's *args).
NoPred == [p |-> "none", classes |-> {}]

Fn(name, pred) == [name |-> name, pred |-> pred]

f(fn, expr, par) ==
    CASE fn.name = "decompose" -> decompose_f(expr, par)
      [] fn.name = "demark" -> demark_f(expr, par)
      [] fn.name = "remove" -> remove_f(expr, par, fn.pred)
      [] fn.name = "mark" -> mark_f(expr, par, fn.pred)

\* f2: the visitor's answer as a list of expressions, a signal and the
\* parent chain of the expressions of that list.
f2(fn, expr, par) ==
    LET t == f(fn, expr, par) IN
    IF t.none THEN [exprs |-> <<>>, signal |-> CONTINUE, par |-> <<>>]
    ELSE IF t.ret.kind = "list" THEN [exprs |-> t.ret.items, signal |-> t.signal, par |-> t.rpar]
    ELSE IF t.ret.kind = "None" THEN [exprs |-> <<>>, signal |-> t.signal, par |-> t.rpar]
    ELSE IF t.ret.kind = "List" THEN [exprs |-> t.ret.children, signal |-> t.signal, par |-> <<"List">> \o t.rpar]
    ELSE [exprs |-> <<t.ret>>, signal |-> t.signal, par |-> t.rpar]

RECURSIVE _expr_map(_, _, _)
_expr_map(expr, par, fn) ==
    LET r == f2(fn, expr, par)
        down == <<expr.kind>> \o par
    IN
    IF IsRaise(expr) THEN <<expr>>
    ELSE IF r.signal = REPLACE_AND_STOP THEN r.exprs
    ELSE IF r.signal = COPY_AND_STOP THEN <<deepcopy(expr)>>
    ELSE IF r.signal = REPLACE_AND_CONTINUE
         THEN Flatten([i \in 1..Len(r.exprs) |-> _expr_map(r.exprs[i], r.par, fn)])
    ELSE CASE expr.kind = "Axis" -> <<deepcopy(expr)>>
           [] expr.kind = "Composition" ->
                <<Composition(ListMaybe(_expr_map(expr.inner, down, fn)))>>
           [] expr.kind = "List" ->
                Flatten([i \in 1..Len(expr.children) |-> _expr_map(expr.children[i], down, fn)])
           [] expr.kind = "Concatenation" ->
                LET children == [i \in 1..Len(expr.children) |->
                                    ListMaybe(_expr_map(expr.children[i], down, fn))]
                    children2 == [i \in 1..Len(children) |->
                                    IF ExprLen(children[i]) > 0 THEN children[i] ELSE Axis(NoName, 1)]
                IN <<Concatenation(children2)>>
           [] expr.kind = "Marker" ->
                LET x == _expr_map(expr.inner, down, fn) IN
                IF Len(x) = 0 THEN <<>> ELSE <<Marker(ListMaybe(x))>>

\* outer: the decorated function, called on a root (a node without parent).
expr_map(fn, expr) == ListMaybe(_expr_map(expr, <<>>, fn))

decompose(expr) == expr_map(Fn("decompose", NoPred), expr)

demark(expr) == expr_map(Fn("demark", NoPred), expr)

remove(expr, pred) == expr_map(Fn("remove", pred), expr)

remove_unnamed_trivial_axes(expr) == remove(expr, TrivialPred)

mark(expr, pred) == expr_map(Fn("mark", pred), expr)

RECURSIVE _get_marked(_)
_get_marked(expr) ==
    CASE expr.kind = "Axis" -> <<>>
      [] expr.kind = "Marker" -> <<deepcopy(expr.inner)>>
      [] expr.kind = "Concatenation" ->
            <<ConcatenationMaybe(Flatten([i \in 1..Len(expr.children) |-> _get_marked(expr.children[i])]))>>
      [] expr.kind = "Composition" -> <<Composition(ListMaybe(_get_marked(expr.inner)))>>
      [] expr.kind = "List" ->
            <<ListMaybe(Flatten([i \in 1..Len(expr.children) |-> _get_marked(expr.children[i])]))>>

get_marked(expr) == ListMaybe(_get_marked(expr))

get_unmarked(expr) == remove(expr, NotMarkedPred)

(* ------------------------- values of the nodes ------------------------- *)

\* Integers beyond the model checker's own: a natural number is the
\* sequence of its base-256 digits, the least significant first, without
\* leading zeros; a Python int is a sign and a natural number.
RECURSIVE Digits(_)
Digits(n) == IF n = 0 THEN <<>> ELSE <<n % 256>> \o Digits(n \div 256)

RECURSIVE Normalize(_)
Normalize(a) ==
    IF a = <<>> THEN <<>>
    ELSE IF a[Len(a)] = 0 THEN Normalize(SubSeq(a, 1, Len(a) - 1))
    ELSE a

Rest1(a) == IF a = <<>> THEN <<>> ELSE Tail(a)

First0(a) == IF a = <<>> THEN 0 ELSE Head(a)

RECURSIVE AddCarry(_, _, _)
AddCarry(a, b, c) ==
    IF a = <<>> /\ b = <<>> THEN Digits(c)
    ELSE <<(First0(a) + First0(b) + c) % 256>>
            \o AddCarry(Rest1(a), Rest1(b), (First0(a) + First0(b) + c) \div 256)

Add(a, b) == Normalize(AddCarry(a, b, 0))

RECURSIVE MulDigit(_, _, _)
MulDigit(a, d, c) ==
    IF a = <<>> THEN Digits(c)
    ELSE <<(Head(a) * d + c) % 256>> \o MulDigit(Tail(a), d, (Head(a) * d + c) \div 256)

RECURSIVE Mul(_, _)
Mul(a, b) ==
    IF b = <<>> THEN <<>>
    ELSE Add(Normalize(MulDigit(a, Head(b), 0)), Normalize(<<0>> \o Mul(a, Tail(b))))

RECURSIVE SumAll(_)
SumAll(vs) == IF vs = <<>> THEN <<>> ELSE Add(Head(vs), SumAll(Tail(vs)))

RECURSIVE ProdAll(_)
ProdAll(vs) == IF vs = <<>> THEN <<1>> ELSE Mul(Head(vs), ProdAll(Tail(vs)))

\* The low w bytes of a natural number.
Truncate(a, w) == [i \in 1..w |-> IF i <= Len(a) THEN a[i] ELSE 0]

PyInt(neg, mag) == [neg |-> neg, mag |-> mag]

\* The Python int that w bytes in two's complement stand for.
Signed(bytes, w) ==
    IF bytes[w] < 128 THEN PyInt(FALSE, Normalize(bytes))
    ELSE PyInt(TRUE, Normalize(Truncate(AddCarry([i \in 1..w |-> 255 - bytes[i]], <<1>>, 0), w + 1)))

Int64Bytes == 8
Int32Bytes == 4

\* int(np.prod([c.value for c in children]).astype(int)): the product in
\* 64-bit integers.
ListValue(vs) == Signed(Truncate(ProdAll(vs), Int64Bytes), Int64Bytes)

\* int(np.sum([c.value for c in children]).astype("int32")): the sum in
\* 64-bit integers, cut to 32 bits.
ConcatenationValue(vs) ==
    Signed(Truncate(Truncate(SumAll(vs), Int64Bytes), Int32Bytes), Int32Bytes)

(* ------------------- symbolic trees and the solver --------------------- *)

\* The symbolic tree solve is given (einx.expr.stage2): the node kinds of
\* the concrete tree, with NamedAxis (no value) and UnnamedAxis (a literal
\* value) as leaves.
NamedAxis(name) == [kind |-> "NamedAxis", name |-> name, value |-> 0]

UnnamedAxis(value) == [kind |-> "UnnamedAxis", name |-> UnnamedName, value |-> value]

Node(kind, children) == [kind |-> kind, children |-> children]

SymChildren(e) == IF e.kind \in {"NamedAxis", "UnnamedAxis"} THEN <<>> ELSE e.children

RECURSIVE sym_all(_, _)
\* all() of a symbolic tree, each node with its identity: the index of its
\* root followed by the child indices that lead to it.
sym_all(e, id) ==
    <<[id |-> id, expr |-> e]>> \o
    Flatten([i \in 1..Len(SymChildren(e)) |-> sym_all(SymChildren(e)[i], id \o <<i>>)])

RECURSIVE sym_iter(_, _)
\* __iter__ of a symbolic tree: its positions, each with its identity.
sym_iter(e, id) ==
    IF e.kind \in {"List", "Marker"}
    THEN Flatten([i \in 1..Len(e.children) |-> sym_iter(e.children[i], id \o <<i>>)])
    ELSE <<[id |-> id, expr |-> e]>>

sym_len(e) == Len(sym_iter(e, <<>>))

\* solver.Variable: of a node (by identity), or of an axis name.
NodeVariable(id) == [node |-> id, name |-> ""]

NameVariable(name) == [node |-> <<>>, name |-> name]

\* The terms of an equation.
VarTerm(v) == [t |-> "var", vs |-> <<v>>, n |-> 0]

IntTerm(n) == [t |-> "int", vs |-> <<>>, n |-> n]

Product(vs) == [t |-> "prod", vs |-> vs, n |-> 0]

Sum(vs) == [t |-> "sum", vs |-> vs, n |-> 0]

Equation(lhs, rhs) == [lhs |-> lhs, rhs |-> rhs]

\* The nodes of all the roots, in the order of the loops of solve.
AllNodes(exprs) == Flatten([r \in 1..Len(exprs) |-> sym_all(exprs[r], <<r>>)])

ChildVariables(n) == [i \in 1..Len(SymChildren(n.expr)) |-> NodeVariable(n.id \o <<i>>)]

\* Relations between expressions and their children.
StructuralEquations(exprs) ==
    LET ns == AllNodes(exprs) IN
    Flatten([j \in 1..Len(ns) |->
        CASE ns[j].expr.kind = "List" ->
                <<Equation(Product(ChildVariables(ns[j])), VarTerm(NodeVariable(ns[j].id)))>>
          [] ns[j].expr.kind = "Concatenation" ->
                <<Equation(Sum(ChildVariables(ns[j])), VarTerm(NodeVariable(ns[j].id)))>>
          [] ns[j].expr.kind \in {"Marker", "Composition"} ->
                <<Equation(VarTerm(NodeVariable(ns[j].id)), VarTerm(NodeVariable(ns[j].id \o <<1>>)))>>
          [] OTHER -> <<>>])

\* An optional shape: None, or a sequence of integers.
NoShape == [some |-> FALSE, shape |-> <<>>]

Shape(s) == [some |-> TRUE, shape |-> s]

\* Root values: zip(root, value) pairs the positions of the root with the
\* entries of its shape.
RootValueEquations(exprs, vals) ==
    Flatten([r \in 1..Len(exprs) |->
        IF ~vals[r].some THEN <<>>
        ELSE LET it == sym_iter(exprs[r], <<r>>) IN
             [j \in 1..Len(it) |-> Equation(VarTerm(NodeVariable(it[j].id)), IntTerm(vals[r].shape[j]))]])

UnnamedEquations(exprs) ==
    LET ns == AllNodes(exprs) IN
    Flatten([j \in 1..Len(ns) |->
        IF ns[j].expr.kind = "UnnamedAxis"
        THEN <<Equation(VarTerm(NodeVariable(ns[j].id)), IntTerm(ns[j].expr.value))>>
        ELSE <<>>])

\* solve without the equations between the occurrences of a name.
NoNamedEquations(exprs) == <<>>

\* Multiple occurrences of the same named axis must have the same value.
NamedEquations(exprs) ==
    LET ns == AllNodes(exprs) IN
    Flatten([j \in 1..Len(ns) |->
        IF ns[j].expr.kind = "NamedAxis"
        THEN <<Equation(VarTerm(NodeVariable(ns[j].id)), VarTerm(NameVariable(ns[j].expr.name)))>>
        ELSE <<>>])

Equations(exprs, vals) ==
    StructuralEquations(exprs) \o RootValueEquations(exprs, vals)
        \o UnnamedEquations(exprs) \o NamedEquations(exprs)

\* The solver (einx.expr.solver): propagation over equalities, sums and
\* products to a fixed point.  A valuation gives each variable its value,
\* or Unknown.
Unknown == -1

RECURSIVE SeqProd(_)
SeqProd(s) == IF s = <<>> THEN 1 ELSE Head(s) * SeqProd(Tail(s))

KnownValues(term, k) ==
    SelectSeq([i \in 1..Len(term.vs) |-> k[term.vs[i]]], LAMBDA x : x # Unknown)

UnknownAt(term, k) == {i \in 1..Len(term.vs) : k[term.vs[i]] = Unknown}

TermValue(term, k) ==
    CASE term.t = "int" -> term.n
      [] term.t = "var" -> k[term.vs[1]]
      [] term.t = "prod" ->
            IF \E i \in 1..Len(term.vs) : k[term.vs[i]] = 0 THEN 0
            ELSE IF UnknownAt(term, k) # {} THEN Unknown
            ELSE SeqProd(KnownValues(term, k))
      [] term.t = "sum" ->
            IF UnknownAt(term, k) # {} THEN Unknown ELSE SeqSum(KnownValues(term, k))

Conflict == [ok |-> FALSE, k |-> <<>>]

Valuation(k) == [ok |-> TRUE, k |-> k]

\* The valuation after term is required to equal the known value x.
Learn(term, x, k) ==
    LET u == UnknownAt(term, k)
        v == term.vs[CHOOSE i \in u : TRUE]
        known == KnownValues(term, k)
    IN
    IF TermValue(term, k) # Unknown
    THEN (IF TermValue(term, k) = x THEN Valuation(k) ELSE Conflict)
    ELSE IF Cardinality(u) # 1 THEN Valuation(k)
    ELSE CASE term.t = "var" -> Valuation([k EXCEPT ![v] = x])
           [] term.t = "prod" ->
                IF x % SeqProd(known) = 0
                THEN Valuation([k EXCEPT ![v] = x \div SeqProd(known)])
                ELSE Conflict
           [] term.t = "sum" ->
                IF x >= SeqSum(known)
                THEN Valuation([k EXCEPT ![v] = x - SeqSum(known)])
                ELSE Conflict

Propagate(eq, k) ==
    IF TermValue(eq.lhs, k) # Unknown THEN Learn(eq.rhs, TermValue(eq.lhs, k), k)
    ELSE IF TermValue(eq.rhs, k) # Unknown THEN Learn(eq.lhs, TermValue(eq.rhs, k), k)
    ELSE Valuation(k)

RECURSIVE PropagateAll(_, _)
PropagateAll(eqs, s) ==
    IF eqs = <<>> \/ ~s.ok THEN s
    ELSE PropagateAll(Tail(eqs), Propagate(Head(eqs), s.k))

RECURSIVE FixedPoint(_, _)
FixedPoint(eqs, s) ==
    LET t == PropagateAll(eqs, s) IN
    IF ~t.ok \/ t = s THEN t ELSE FixedPoint(eqs, t)

Variables(eqs) ==
    UNION {{eqs[i].lhs.vs[j] : j \in 1..Len(eqs[i].lhs.vs)} \cup
           {eqs[i].rhs.vs[j] : j \in 1..Len(eqs[i].rhs.vs)} : i \in 1..Len(eqs)}

\* solver.solve: a conflict (SolveException), or the values of the
\* variables the equations pin down.
solver_solve(eqs) == FixedPoint(eqs, Valuation([v \in Variables(eqs) |-> Unknown]))

(* -------------------------------- solve -------------------------------- *)

SolveValueException(exprs, vals, message) ==
    [kind |-> "Raise", exc |-> "SolveValueException", expressions |-> exprs,
     values |-> vals, message |-> message]

OtherException(exc) ==
    [kind |-> "Raise", exc |-> exc, expressions |-> <<>>, values |-> <<>>,
     message |-> [text |-> "", axes |-> {}]]

Message(text, axes) == [text |-> text, axes |-> axes]

\* axis_values: the solver's values without the variables of the names;
\* a node is in axis_values when its value is known.
InAxisValues(id, k) == k[NodeVariable(id)] # Unknown

\* solve without its collection of the axes left without a value.
no_failed_axes(exprs, k) == {}

failed_axes(exprs, k) ==
    LET ns == AllNodes(exprs) IN
    {ns[j].expr.name : j \in {i \in 1..Len(ns) :
        ns[i].expr.kind = "NamedAxis" /\ ~InAxisValues(ns[i].id, k)}}

RECURSIVE map(_, _, _)
\* Map stage2 expressions to stage3 expressions.
map(e, id, k) ==
    CASE e.kind = "NamedAxis" ->
            IF ~InAxisValues(id, k) THEN Raise("AssertionError")
            ELSE IF k[NodeVariable(id)] <= 0 THEN Raise("SolveValueException")
            ELSE Axis(e.name, k[NodeVariable(id)])
      [] e.kind = "UnnamedAxis" ->
            IF ~InAxisValues(id, k) THEN Raise("AssertionError")
            ELSE IF k[NodeVariable(id)] <= 0 THEN Raise("SolveValueException")
            ELSE Axis(NoName, k[NodeVariable(id)])
      [] e.kind = "List" -> List([i \in 1..Len(e.children) |-> map(e.children[i], id \o <<i>>, k)])
      [] e.kind = "Concatenation" ->
            Concatenation([i \in 1..Len(e.children) |-> map(e.children[i], id \o <<i>>, k)])
      [] e.kind = "Marker" -> Marker(map(e.children[1], id \o <<1>>, k))
      [] e.kind = "Composition" -> Composition(map(e.children[1], id \o <<1>>, k))

solve(exprs, vals) ==
    LET eqs == Equations(exprs, vals)
        s == solver_solve(eqs)
        failed == failed_axes(exprs, s.k)
        mapped == [r \in 1..Len(exprs) |-> map(exprs[r], <<r>>, s.k)]
    IN
    IF Len(vals) # Len(exprs) THEN OtherException("ValueError")
    ELSE IF \E r \in 1..Len(exprs) : vals[r].some /\ Len(vals[r].shape) # sym_len(exprs[r])
         THEN OtherException("AssertionError")
    ELSE IF ~s.ok THEN SolveValueException(exprs, vals, Message("solver", {}))
    ELSE IF Cardinality(failed) = 1
         THEN SolveValueException(exprs, vals, Message("Found no unique solution for", failed))
    ELSE IF Cardinality(failed) > 1
         THEN SolveValueException(exprs, vals, Message("Found no unique solutions for", failed))
    ELSE IF HasRaise(mapped)
         THEN (IF FirstRaise(mapped).exc = "SolveValueException"
               THEN SolveValueException(exprs, vals, Message("has value <= 0", {}))
               ELSE OtherException(FirstRaise(mapped).exc))
    ELSE [kind |-> "Return", exc |-> "", expressions |-> mapped, values |-> vals,
          message |-> Message("", {})]

(* ------------------------- the program's steps ------------------------- *)

\* Number of nodes of a tree.
Size(e) == Len(all(e))

StackSize == SeqSum([i \in 1..Len(stack) |-> Size(stack[i])])

\* The last k expressions of the stack, oldest first.
Top(k) == SubSeq(stack, Len(stack) - k + 1, Len(stack))

Rest(k) == SubSeq(stack, 1, Len(stack) - k)

Built(e) ==
    /\ ~IsRaise(e)
    /\ op' = Fn("new", NoPred)
    /\ arg' = None
    /\ UNCHANGED solveVars
    /\ UNCHANGED node
    /\ UNCHANGED objectVars

\* The arguments Axis is called with: an axis a of value 1, an unnamed
\* axis of value 1 and an unnamed axis of value 2.
AxisArguments ==
    { [name |-> "a", value |-> 1], [name |-> NoName, value |-> 1], [name |-> NoName, value |-> 2] }

NewAxis ==
    /\ StackSize < MaxNodes
    /\ \E axis \in AxisArguments :
          /\ stack' = stack \o <<Axis(axis.name, axis.value)>>
          /\ Built(Axis(axis.name, axis.value))

NewComposition ==
    /\ Len(stack) >= 1
    /\ StackSize < MaxNodes
    /\ stack' = Rest(1) \o <<Composition(Top(1)[1])>>
    /\ Built(Composition(Top(1)[1]))

NewMarker ==
    /\ Len(stack) >= 1
    /\ StackSize < MaxNodes
    /\ stack' = Rest(1) \o <<Marker(Top(1)[1])>>
    /\ Built(Marker(Top(1)[1]))

NewList ==
    /\ StackSize < MaxNodes
    /\ \E k \in 0..MaxChildren :
          /\ k <= Len(stack)
          /\ stack' = Rest(k) \o <<List(Top(k))>>
          /\ Built(List(Top(k)))

NewConcatenation ==
    /\ StackSize < MaxNodes
    /\ \E k \in 0..MaxChildren :
          /\ k <= Len(stack)
          /\ stack' = Rest(k) \o <<Concatenation(Top(k))>>
          /\ Built(Concatenation(Top(k)))

\* A rewrite operation called on the one tree built: the stack then holds
\* its result (a tree or the exception raised), arg the tree it was given.
Called(name, pred, result) ==
    /\ Len(stack) = 1
    /\ ~IsRaise(stack[1])
    /\ op' = Fn(name, pred)
    /\ arg' = stack[1]
    /\ stack' = <<result>>
    /\ UNCHANGED solveVars
    /\ UNCHANGED node
    /\ UNCHANGED objectVars

Decompose == Called("decompose", NoPred, decompose(stack[1]))

Demark == Called("demark", NoPred, demark(stack[1]))

RemoveUnnamedTrivialAxes == Called("remove_unnamed_trivial_axes", NoPred, remove_unnamed_trivial_axes(stack[1]))

GetMarked == Called("get_marked", NoPred, get_marked(stack[1]))

GetUnmarked == Called("get_unmarked", NoPred, get_unmarked(stack[1]))

MarkPreds ==
    { ClassPred({"a", UnnamedName}),
      ClassPred({"Composition"}),
      ClassPred({"List", "a"}),
      ClassPred({"Axis", "List", "Concatenation", "Composition", "Marker", "a", UnnamedName}) }

Mark == \E pred \in MarkPreds : Called("mark", pred, mark(stack[1], pred))

NotConstructed == [kind |-> "None", children |-> <<>>, value |-> PyInt(FALSE, <<>>)]

NotCalled ==
    [kind |-> "NotCalled", exc |-> "", expressions |-> <<>>, values |-> <<>>,
     message |-> Message("", {})]

Init ==
    /\ stack = <<>>
    /\ op = Fn("init", NoPred)
    /\ arg = None
    /\ expressions = <<>>
    /\ values = <<>>
    /\ solved = NotCalled
    /\ node = NotConstructed
    /\ heap = <<>>
    /\ tree = 0
    /\ before = <<>>
    /\ results = <<>>

Next ==
    \/ NewAxis
    \/ NewComposition
    \/ NewMarker
    \/ NewList
    \/ NewConcatenation
    \/ Decompose
    \/ Demark
    \/ RemoveUnnamedTrivialAxes
    \/ GetMarked
    \/ GetUnmarked
    \/ Mark

Spec == Init /\ [][Next]_vars

(* ------------------------- the calls of solve -------------------------- *)

\* The symbolic roots a caller hands over: "a b", "b c", "(a b)", "a+b",
\* "[a] 2", "0".
SymbolicRoots ==
    { Node("List", <<NamedAxis("a"), NamedAxis("b")>>),
      Node("List", <<NamedAxis("b"), NamedAxis("c")>>),
      Node("List", <<Node("Composition", <<Node("List", <<NamedAxis("a"), NamedAxis("b")>>)>>)>>),
      Node("List", <<Node("Concatenation", <<NamedAxis("a"), NamedAxis("b")>>)>>),
      Node("List", <<Node("Marker", <<NamedAxis("a")>>), UnnamedAxis(2)>>),
      Node("List", <<UnnamedAxis(0)>>) }

\* The sizes a shape holds.
ShapeValues == {2, 3, 5}

\* The shapes a caller hands over for a root: none, a shape with one size
\* for each position of the root, or a shape that is one size too short
\* or too long.
ShapeOptions(root) ==
    {NoShape}
        \cup {Shape(s) : s \in [1..sym_len(root) -> ShapeValues]}
        \cup {Shape([i \in 1..n |-> 2]) : n \in {sym_len(root) - 1, sym_len(root) + 1}}

\* One shape for each root, or one shape too few.
ValueLists(exprs) ==
    {vals \in UNION {[1..n -> UNION {ShapeOptions(exprs[r]) : r \in 1..Len(exprs)}] :
                        n \in {Len(exprs) - 1, Len(exprs)} \cap Nat} :
        \A r \in 1..Len(vals) : vals[r] \in ShapeOptions(exprs[r])}

\* The caller collects one more root.
AddRoot ==
    /\ solved.kind = "NotCalled"
    /\ Len(expressions) < MaxRoots
    /\ \E root \in SymbolicRoots : expressions' = Append(expressions, root)
    /\ UNCHANGED <<values, solved>>
    /\ UNCHANGED rewriteVars
    /\ UNCHANGED node
    /\ UNCHANGED objectVars

Solve ==
    /\ solved.kind = "NotCalled"
    /\ \E vals \in ValueLists(expressions) :
          /\ values' = vals
          /\ solved' = solve(expressions, vals)
    /\ UNCHANGED expressions
    /\ UNCHANGED rewriteVars
    /\ UNCHANGED node
    /\ UNCHANGED objectVars

SolveNext ==
    \/ AddRoot
    \/ Solve

SolveSpec == Init /\ [][SolveNext]_vars

(* -------------------- the construction of one node --------------------- *)

\* 2^k as a natural number.
Pow2(k) == [i \in 1..(k \div 8 + 1) |-> IF i = k \div 8 + 1 THEN 2^(k % 8) ELSE 0]

\* The values of the children: 1, 2, 3, 2^16, 2^30, 2^31 - 1, 2^32, 2^62.
ChildValues ==
    { Digits(1), Digits(2), Digits(3), Pow2(16), Pow2(30), Digits(2147483647), Pow2(32), Pow2(62) }

ChildValueLists == UNION {[1..n -> ChildValues] : n \in 0..MaxChildren}

\* List(children), the children being axes of the given values.
ConstructList ==
    /\ \E vs \in ChildValueLists :
          node' = [kind |-> "List", children |-> vs, value |-> ListValue(vs)]
    /\ UNCHANGED rewriteVars
    /\ UNCHANGED solveVars
    /\ UNCHANGED objectVars

\* Concatenation(children), the children being axes of the given values;
\* without children it raises and constructs nothing.
ConstructConcatenation ==
    /\ \E vs \in ChildValueLists :
          /\ Len(vs) # 0
          /\ node' = [kind |-> "Concatenation", children |-> vs, value |-> ConcatenationValue(vs)]
    /\ UNCHANGED rewriteVars
    /\ UNCHANGED solveVars
    /\ UNCHANGED objectVars

ValueNext ==
    \/ ConstructList
    \/ ConstructConcatenation

ValueSpec == Init /\ [][ValueNext]_vars

(* ------------------------------ objects -------------------------------- *)

\* The same classes and operations with the nodes as objects.  An object
\* is an entry of the heap and its identity is its index; a reference to
\* an object is that index, and None is NoObject.  inner is children[1].
\* A step of the computation hands on the heap it leaves together with
\* the references it computed, or with the exception it raised.

\* Most objects the caller constructs.
MaxObjects == 3
\* Most calls of rewrite operations on the tree.
MaxCalls == 2

NoObject == 0

Object(kind, name, value, children) ==
    [kind |-> kind, name |-> name, value |-> value, children |-> children, parent |-> NoObject]

Ok(h, ids) == [h |-> h, ids |-> ids, exc |-> ""]

Fail(h, exc) == [h |-> h, ids |-> <<>>, exc |-> exc]

\* The one element of a set of one element.  An outcome is computed once
\* and then given a name by drawing it from the set that holds just it.
Only(S) == CHOOSE x \in S : TRUE

\* The references of s after those of r, unless s raised.
Extend(r, s) ==
    Only({IF s1.exc # "" THEN s1 ELSE Ok(s1.h, r1.ids \o s1.ids) : r1 \in {r}, s1 \in {s}})

\* c.parent = self for the first k of the children.
SetParents(h, children, k, self) ==
    [n \in 1..Len(h) |->
        IF \E i \in 1..k : children[i] = n THEN [h[n] EXCEPT !.parent = self] ELSE h[n]]

RECURSIVE len_obj(_, _)
\* __len__
len_obj(h, e) ==
    CASE h[e].kind = "List" ->
            SeqSum([i \in 1..Len(h[e].children) |-> len_obj(h, h[e].children[i])])
      [] h[e].kind = "Marker" -> len_obj(h, h[e].children[1])
      [] OTHER -> 1

\* The constructors take their arguments as the outcome got of the
\* computation of those arguments: the heap it left and the references
\* got.ids, or the exception it raised, which they pass on.

Axis_obj(h, name, value) ==
    Ok(Append(h, Object("Axis", IF name = NoName THEN UnnamedName ELSE name, value, <<>>)),
       <<Len(h) + 1>>)

\* Composition(inner), inner being the one reference of got.
Composition_obj(got) ==
    Only({IF r.exc # "" THEN r
          ELSE Ok(SetParents(Append(r.h, Object("Composition", NoName, r.h[r.ids[1]].value, r.ids)),
                             r.ids, 1, Len(r.h) + 1),
                  <<Len(r.h) + 1>>) : r \in {got}})

\* Marker(inner), inner being the one reference of got.
Marker_obj(got) ==
    Only({IF r.exc # "" THEN r
          ELSE IF len_obj(r.h, r.ids[1]) = 0 THEN Fail(r.h, "ValueError")
          ELSE Ok(SetParents(Append(r.h, Object("Marker", NoName, r.h[r.ids[1]].value, r.ids)),
                             r.ids, 1, Len(r.h) + 1),
                  <<Len(r.h) + 1>>) : r \in {got}})

\* The children the loop of a constructor reaches before it raises at one
\* of the children in bad, or all of them.
Reached(children, bad) ==
    IF bad = {} THEN Len(children)
    ELSE (CHOOSE i \in bad : \A j \in bad : i <= j) - 1

\* The List or Concatenation self of the given value with the children
\* r.ids, of which those in bad make the loop of the constructor raise: the
\* loop gives the children before the first of them their parent.
Looped(r, kind, value, bad) ==
    IF bad = {}
    THEN Ok(SetParents(Append(r.h, Object(kind, NoName, value, r.ids)),
                       r.ids, Len(r.ids), Len(r.h) + 1),
            <<Len(r.h) + 1>>)
    ELSE Fail(SetParents(Append(r.h, Object(kind, NoName, value, r.ids)),
                         r.ids, Reached(r.ids, bad), Len(r.h) + 1),
              "ValueError")

\* List(children), children being the references of got.
List_obj(got) ==
    Only({IF r.exc # "" THEN r
          ELSE Looped(r, "List",
                      SeqProd([i \in 1..Len(r.ids) |-> r.h[r.ids[i]].value]),
                      {i \in 1..Len(r.ids) : r.h[r.ids[i]].kind = "List"}) : r \in {got}})

List_maybe_obj(got) ==
    Only({IF r.exc # "" \/ Len(r.ids) = 1 THEN r ELSE List_obj(r) : r \in {got}})

\* Concatenation(children), children being the references of got.
Concatenation_obj(got) ==
    Only({IF r.exc # "" THEN r
          ELSE IF Len(r.ids) = 0 THEN Fail(r.h, "ValueError")
          ELSE Looped(r, "Concatenation",
                      SeqSum([i \in 1..Len(r.ids) |-> r.h[r.ids[i]].value]),
                      {i \in 1..Len(r.ids) : len_obj(r.h, r.ids[i]) # 1}) : r \in {got}})

Concatenation_maybe_obj(got) ==
    Only({IF r.exc # "" \/ Len(r.ids) = 1 THEN r ELSE Concatenation_obj(r) : r \in {got}})

RECURSIVE deepcopy_obj(_, _)
RECURSIVE deepcopy_each(_, _)
\* [c.__deepcopy__() for c in children], after the copies of got.
deepcopy_each(got, es) ==
    Only({IF r.exc # "" \/ es = <<>> THEN r
          ELSE deepcopy_each(Extend(r, deepcopy_obj(r.h, Head(es))), Tail(es)) : r \in {got}})

\* __deepcopy__
deepcopy_obj(h, e) ==
    CASE h[e].kind = "Axis" -> Axis_obj(h, h[e].name, h[e].value)
      [] h[e].kind = "Composition" -> Composition_obj(deepcopy_obj(h, h[e].children[1]))
      [] h[e].kind = "Marker" -> Marker_obj(deepcopy_obj(h, h[e].children[1]))
      [] h[e].kind = "List" -> List_obj(deepcopy_each(Ok(h, <<>>), h[e].children))
      [] h[e].kind = "Concatenation" ->
            Concatenation_obj(deepcopy_each(Ok(h, <<>>), h[e].children))

RECURSIVE all_obj(_, _)
\* all(): the object and its descendants, in pre-order.
all_obj(h, e) ==
    <<e>> \o Flatten([i \in 1..Len(h[e].children) |-> all_obj(h, h[e].children[i])])

RECURSIVE is_marked_obj(_, _)
\* any_parent_is(expr, Marker): the object or one of its ancestors, along
\* the parent references, is a Marker.
is_marked_obj(h, e) ==
    IF e = NoObject THEN FALSE
    ELSE IF h[e].kind = "Marker" THEN TRUE
    ELSE is_marked_obj(h, h[e].parent)

RECURSIVE is_concat_child_obj(_, _)
is_concat_child_obj(h, e) ==
    /\ h[e].parent # NoObject
    /\ \/ h[h[e].parent].kind = "Concatenation"
       \/ h[h[e].parent].kind = "Marker" /\ is_concat_child_obj(h, h[e].parent)

\* What the function handed to expr_map returned: nothing, or a pair of
\* an expression, a list of expressions or None, and a signal.
Returned_obj(h, t, expr, exprs, signal, exc) ==
    [h |-> h, t |-> t, expr |-> expr, exprs |-> exprs, signal |-> signal, exc |-> exc]

ReturnNothing(h) == Returned_obj(h, "nothing", NoObject, <<>>, CONTINUE, "")

ReturnExpression(h, expr, signal) == Returned_obj(h, "Expression", expr, <<>>, signal, "")

ReturnList(h, exprs, signal) == Returned_obj(h, "list", NoObject, exprs, signal, "")

\* A function handed to an operation, as data: pred(expr) of remove and
\* mark holds of the objects whose kind is in classes; f(expr) of replace
\* returns, for an object whose kind is in classes, the object ret, or
\* that object itself when ret is Itself, and None for any other object.
Itself == -1

Fn_obj(name, classes, ret) == [name |-> name, classes |-> classes, ret |-> ret]

pred_obj(h, expr, fn) == h[expr].kind \in fn.classes

\* The lambda remove_unnamed_trivial_axes hands to remove.
unnamed_trivial_obj(h, expr) ==
    /\ h[expr].kind = "Axis"
    /\ h[expr].name = UnnamedName
    /\ h[expr].value = 1
    /\ ~is_concat_child_obj(h, expr)

decompose_f_obj(h, expr) ==
    IF h[expr].kind = "Composition"
    THEN ReturnExpression(h, h[expr].children[1], REPLACE_AND_CONTINUE)
    ELSE IF h[expr].kind = "Concatenation"
         THEN Returned_obj(h, "None", NoObject, <<>>, COPY_AND_STOP, "")
    ELSE ReturnNothing(h)

demark_f_obj(h, expr) ==
    IF h[expr].kind = "Marker"
    THEN ReturnExpression(h, h[expr].children[1], REPLACE_AND_CONTINUE)
    ELSE ReturnNothing(h)

\* f(expr), the function the caller hands to replace.
f_obj(h, expr, fn) ==
    IF h[expr].kind \in fn.classes
    THEN (IF fn.ret = Itself THEN expr ELSE fn.ret)
    ELSE NoObject

replace_f_obj(h, expr, fn) ==
    IF f_obj(h, expr, fn) # NoObject
    THEN ReturnExpression(h, f_obj(h, expr, fn), REPLACE_AND_STOP)
    ELSE ReturnNothing(h)

remove_f_obj(h, expr, holds) ==
    IF holds THEN ReturnList(h, <<>>, REPLACE_AND_STOP) ELSE ReturnNothing(h)

mark_f_obj(h, expr, fn) ==
    IF /\ h[expr].kind # "Marker"
       /\ (h[expr].parent = NoObject \/ h[h[expr].parent].kind # "Marker")
       /\ pred_obj(h, expr, fn)
    THEN Only({IF m.exc # "" THEN Returned_obj(m.h, "raise", NoObject, <<>>, CONTINUE, m.exc)
               ELSE ReturnExpression(m.h, m.ids[1], REPLACE_AND_CONTINUE) :
                    m \in {Marker_obj(deepcopy_obj(h, expr))}})
    ELSE ReturnNothing(h)

\* The function of the operation fn.name, called on expr.
visit_obj(h, expr, fn) ==
    CASE fn.name = "decompose" -> decompose_f_obj(h, expr)
      [] fn.name = "demark" -> demark_f_obj(h, expr)
      [] fn.name = "replace" -> replace_f_obj(h, expr, fn)
      [] fn.name = "remove" -> remove_f_obj(h, expr, pred_obj(h, expr, fn))
      [] fn.name = "remove_unnamed_trivial_axes" -> remove_f_obj(h, expr, unnamed_trivial_obj(h, expr))
      [] fn.name = "get_unmarked" -> remove_f_obj(h, expr, ~is_marked_obj(h, expr))
      [] fn.name = "mark" -> mark_f_obj(h, expr, fn)

\* f2: the function's return as a list of expressions and a signal.  A
\* List stands for its children: the list is the List's own list of
\* children.
f2_obj(h, expr, fn) ==
    Only({CASE t.t = "Expression" ->
                IF t.h[t.expr].kind = "List"
                THEN ReturnList(t.h, t.h[t.expr].children, t.signal)
                ELSE ReturnList(t.h, <<t.expr>>, t.signal)
            [] OTHER -> t : t \in {visit_obj(h, expr, fn)}})

RECURSIVE _expr_map_obj(_, _, _)
RECURSIVE _expr_map_each(_, _, _)
RECURSIVE _expr_map_maybe_each(_, _, _)
RECURSIVE fill_empty(_, _)
RECURSIVE _expr_map_after(_, _, _)

\* [c for expr in exprs for c in _expr_map(expr, f)], after the results
\* of got.
_expr_map_each(got, exprs, fn) ==
    Only({IF r.exc # "" \/ exprs = <<>> THEN r
          ELSE _expr_map_each(Extend(r, _expr_map_obj(r.h, Head(exprs), fn)), Tail(exprs), fn) :
                r \in {got}})

\* [List.maybe(_expr_map(c, f)) for c in expr.children], after the
\* results of got.
_expr_map_maybe_each(got, exprs, fn) ==
    Only({IF r.exc # "" \/ exprs = <<>> THEN r
          ELSE _expr_map_maybe_each(
                    Extend(r, List_maybe_obj(_expr_map_obj(r.h, Head(exprs), fn))),
                    Tail(exprs), fn) : r \in {got}})

\* [c if len(c) > 0 else Axis(None, 1) for c in children], after the
\* results of got.
fill_empty(got, children) ==
    Only({IF r.exc # "" \/ children = <<>> THEN r
          ELSE fill_empty(Extend(r, IF len_obj(r.h, Head(children)) > 0
                                    THEN Ok(r.h, <<Head(children)>>)
                                    ELSE Axis_obj(r.h, NoName, 1)),
                          Tail(children)) : r \in {got}})

\* Concatenation(children) for the children computed, an empty one
\* replaced.
concatenation_of(got) ==
    Only({IF children.exc # "" THEN children
          ELSE Concatenation_obj(fill_empty(Ok(children.h, <<>>), children.ids)) :
                children \in {got}})

\* Nothing for an empty x (the empty Marker is dropped), else
\* Marker(List.maybe(x)).
marker_of(got) ==
    Only({IF x.exc = "" /\ x.ids = <<>> THEN x ELSE Marker_obj(List_maybe_obj(x)) : x \in {got}})

\* _expr_map after r, what f returned for expr.
_expr_map_after(r, expr, fn) ==
    IF r.exc # "" THEN Fail(r.h, r.exc)
    ELSE IF r.signal = REPLACE_AND_STOP THEN Ok(r.h, r.exprs)
    ELSE IF r.signal = COPY_AND_STOP THEN deepcopy_obj(r.h, expr)
    ELSE IF r.signal = REPLACE_AND_CONTINUE THEN _expr_map_each(Ok(r.h, <<>>), r.exprs, fn)
    ELSE CASE r.h[expr].kind = "Axis" -> deepcopy_obj(r.h, expr)
           [] r.h[expr].kind = "Composition" ->
                Composition_obj(List_maybe_obj(_expr_map_obj(r.h, r.h[expr].children[1], fn)))
           [] r.h[expr].kind = "List" -> _expr_map_each(Ok(r.h, <<>>), r.h[expr].children, fn)
           [] r.h[expr].kind = "Concatenation" ->
                concatenation_of(_expr_map_maybe_each(Ok(r.h, <<>>), r.h[expr].children, fn))
           [] r.h[expr].kind = "Marker" ->
                marker_of(_expr_map_obj(r.h, r.h[expr].children[1], fn))

_expr_map_obj(h, expr, fn) == Only({_expr_map_after(r, expr, fn) : r \in {f2_obj(h, expr, fn)}})

\* outer: List.maybe(_expr_map(expr, f2))
expr_map_obj(h, expr, fn) == List_maybe_obj(_expr_map_obj(h, expr, fn))

RECURSIVE _get_marked_obj(_, _)
RECURSIVE _get_marked_each(_, _)
\* [x for c in expr.children for x in _get_marked(c)], after the results
\* of got.
_get_marked_each(got, exprs) ==
    Only({IF r.exc # "" \/ exprs = <<>> THEN r
          ELSE _get_marked_each(Extend(r, _get_marked_obj(r.h, Head(exprs))), Tail(exprs)) :
                r \in {got}})

_get_marked_obj(h, expr) ==
    CASE h[expr].kind = "Axis" -> Ok(h, <<>>)
      [] h[expr].kind = "Marker" -> deepcopy_obj(h, h[expr].children[1])
      [] h[expr].kind = "Concatenation" ->
            Concatenation_maybe_obj(_get_marked_each(Ok(h, <<>>), h[expr].children))
      [] h[expr].kind = "Composition" ->
            Composition_obj(List_maybe_obj(_get_marked_obj(h, h[expr].children[1])))
      [] h[expr].kind = "List" ->
            List_maybe_obj(_get_marked_each(Ok(h, <<>>), h[expr].children))

get_marked_obj(h, expr) == List_maybe_obj(_get_marked_obj(h, expr))

(* ----------------------- the steps over objects ------------------------ *)

\* The objects without a parent: the roots of the trees built so far.
Roots == {n \in 1..Len(heap) : heap[n].parent = NoObject}

\* The lists of k different roots.
RootLists(k) == {l \in [1..k -> Roots] : \A i, j \in 1..k : l[i] = l[j] => i = j}

\* A constructor call of the caller: it returns, and the tree has not been
\* handed to an operation yet.
Constructed(new) ==
    /\ tree = NoObject
    /\ Len(heap) < MaxObjects
    /\ \E r \in {new} :
          /\ r.exc = ""
          /\ heap' = r.h
    /\ UNCHANGED <<tree, before, results>>
    /\ UNCHANGED <<rewriteVars, solveVars, node>>

NewAxisObject == \E axis \in AxisArguments : Constructed(Axis_obj(heap, axis.name, axis.value))

NewCompositionObject == \E inner \in Roots : Constructed(Composition_obj(Ok(heap, <<inner>>)))

NewMarkerObject == \E inner \in Roots : Constructed(Marker_obj(Ok(heap, <<inner>>)))

NewListObject ==
    \E k \in 0..MaxChildren : \E children \in RootLists(k) : Constructed(List_obj(Ok(heap, children)))

NewConcatenationObject ==
    \E k \in 1..MaxChildren : \E children \in RootLists(k) :
        Constructed(Concatenation_obj(Ok(heap, children)))

\* An operation called on the tree t: on a tree the caller built when it is
\* the first call, on the same tree afterwards.
CalledOn(t, fn, call) ==
    /\ Len(results) < MaxCalls
    /\ t = tree \/ tree = NoObject
    /\ tree' = t
    /\ before' = IF tree = NoObject THEN heap ELSE before
    /\ \E r \in {call} :
          /\ heap' = r.h
          /\ results' = Append(results, [name |-> fn.name, ids |-> r.ids, exc |-> r.exc])
    /\ UNCHANGED <<rewriteVars, solveVars, node>>

Kinds == {"Axis", "List", "Concatenation", "Composition", "Marker"}

\* The predicates and functions the caller hands over hold of the axes,
\* of the Compositions, or of every object.
ClassSets == {{"Axis"}, {"Composition"}, Kinds}

DecomposeObject ==
    \E t \in Roots :
        CalledOn(t, Fn_obj("decompose", {}, NoObject),
                 expr_map_obj(heap, t, Fn_obj("decompose", {}, NoObject)))

DemarkObject ==
    \E t \in Roots :
        CalledOn(t, Fn_obj("demark", {}, NoObject),
                 expr_map_obj(heap, t, Fn_obj("demark", {}, NoObject)))

\* replace(t, f): f returns the object it is called on, or the root of a
\* tree the caller holds.
ReplaceObject ==
    \E t \in Roots, classes \in ClassSets, ret \in {Itself} \cup Roots :
        CalledOn(t, Fn_obj("replace", classes, ret),
                 expr_map_obj(heap, t, Fn_obj("replace", classes, ret)))

RemoveObject ==
    \E t \in Roots, classes \in ClassSets :
        CalledOn(t, Fn_obj("remove", classes, NoObject),
                 expr_map_obj(heap, t, Fn_obj("remove", classes, NoObject)))

RemoveUnnamedTrivialAxesObject ==
    \E t \in Roots :
        CalledOn(t, Fn_obj("remove_unnamed_trivial_axes", {}, NoObject),
                 expr_map_obj(heap, t, Fn_obj("remove_unnamed_trivial_axes", {}, NoObject)))

MarkObject ==
    \E t \in Roots, classes \in ClassSets :
        CalledOn(t, Fn_obj("mark", classes, NoObject),
                 expr_map_obj(heap, t, Fn_obj("mark", classes, NoObject)))

GetMarkedObject ==
    \E t \in Roots :
        CalledOn(t, Fn_obj("get_marked", {}, NoObject), get_marked_obj(heap, t))

GetUnmarkedObject ==
    \E t \in Roots :
        CalledOn(t, Fn_obj("get_unmarked", {}, NoObject),
                 expr_map_obj(heap, t, Fn_obj("get_unmarked", {}, NoObject)))

ObjectNext ==
    \/ NewAxisObject
    \/ NewCompositionObject
    \/ NewMarkerObject
    \/ NewListObject
    \/ NewConcatenationObject
    \/ DecomposeObject
    \/ DemarkObject
    \/ ReplaceObject
    \/ RemoveObject
    \/ RemoveUnnamedTrivialAxesObject
    \/ MarkObject
    \/ GetMarkedObject
    \/ GetUnmarkedObject

ObjectSpec == Init /\ [][ObjectNext]_vars

(* ------------------------- properties of trees ------------------------- *)

Children(e) ==
    CASE e.kind \in {"Composition", "Marker"} -> <<e.inner>>
      [] e.kind \in {"List", "Concatenation"} -> e.children
      [] OTHER -> <<>>

HasKind(e, kind) == \E i \in 1..Len(all(e)) : all(e)[i].kind = kind

\* A Marker with a Marker among its descendants.
NestedMarker(e) ==
    \E i \in 1..Len(all(e)) :
        /\ all(e)[i].kind = "Marker"
        /\ HasKind(all(e)[i].inner, "Marker")

RECURSIVE AxesWhere(_, _, _)
\* The axes of e, in order, that have a Marker among their ancestors
\* (marked = TRUE) or have none (marked = FALSE); under tells whether e
\* itself lies below a Marker.
AxesWhere(e, under, marked) ==
    IF e.kind = "Axis" THEN (IF under = marked THEN <<e>> ELSE <<>>)
    ELSE Flatten([i \in 1..Len(Children(e)) |->
                    AxesWhere(Children(e)[i], under \/ e.kind = "Marker", marked)])

Count(x, s) == Cardinality({i \in 1..Len(s) : s[i] = x})

SameBag(s, t) ==
    \A x \in {s[i] : i \in 1..Len(s)} \cup {t[i] : i \in 1..Len(t)} : Count(x, s) = Count(x, t)

RECURSIVE OuterLeaves(_)
\* In order: the axes of e that lie in no Concatenation, and the outermost
\* Concatenation subtrees of e.
OuterLeaves(e) ==
    IF e.kind \in {"Axis", "Concatenation"} THEN <<e>>
    ELSE Flatten([i \in 1..Len(Children(e)) |-> OuterLeaves(Children(e)[i])])

RECURSIVE CompositionOutside(_)
\* A Composition of e that lies in no Concatenation.
CompositionOutside(e) ==
    CASE e.kind = "Composition" -> TRUE
      [] e.kind = "Concatenation" -> FALSE
      [] OTHER -> \E i \in 1..Len(Children(e)) : CompositionOutside(Children(e)[i])

After(name) == op.name = name /\ Len(stack) = 1

Result == stack[1]

(* ------------------------------- claims -------------------------------- *)

\* C1 (as claimed): for a tree t without a Marker inside a Marker,
\* get_marked(t) and get_unmarked(t) both return a tree, the axes of
\* get_marked(t) are the axes of t with a Marker ancestor, the axes of
\* get_unmarked(t) are the axes of t without one, each as often as in t.
C1_MarkedUnmarkedPartition ==
    (After("get_unmarked") /\ ~NestedMarker(arg)) =>
        /\ ~IsRaise(Result)
        /\ ~IsRaise(get_marked(arg))
        /\ SameBag(get_axes(get_marked(arg)), AxesWhere(arg, FALSE, TRUE))
        /\ SameBag(get_axes(Result), AxesWhere(arg, FALSE, FALSE))

\* C5 (as claimed): the axes of remove_unnamed_trivial_axes(t) are, in
\* order, the axes of t without the unnamed axes of value 1 that are not
\* under a Concatenation directly or through Markers only.
RECURSIVE KeptAxes(_, _)
KeptAxes(e, par) ==
    IF e.kind = "Axis"
    THEN (IF is_unnamed(e) /\ e.value = 1 /\ ~is_concat_child(par) THEN <<>> ELSE <<e>>)
    ELSE Flatten([i \in 1..Len(Children(e)) |-> KeptAxes(Children(e)[i], <<e.kind>> \o par)])

C5_RemovesExactlyTrivialAxes ==
    After("remove_unnamed_trivial_axes") =>
        /\ ~IsRaise(Result)
        /\ get_axes(Result) = KeptAxes(arg, <<>>)

RECURSIVE Emptied(_, _)
\* Nothing of e is left: e is a removed axis, or a List or Marker all of
\* whose content is removed.
Emptied(e, par) ==
    CASE e.kind = "Axis" -> is_unnamed(e) /\ e.value = 1 /\ ~is_concat_child(par)
      [] e.kind \in {"List", "Marker"} ->
            \A i \in 1..Len(Children(e)) : Emptied(Children(e)[i], <<e.kind>> \o par)
      [] OTHER -> FALSE

RECURSIVE KeptOrReplacedAxes(_, _)
KeptOrReplacedAxes(e, par) ==
    CASE e.kind = "Axis" -> KeptAxes(e, par)
      [] e.kind = "Concatenation" ->
            Flatten([i \in 1..Len(e.children) |->
                IF Emptied(e.children[i], <<e.kind>> \o par)
                THEN <<Axis(NoName, 1)>>
                ELSE KeptOrReplacedAxes(e.children[i], <<e.kind>> \o par)])
      [] OTHER -> Flatten([i \in 1..Len(Children(e)) |->
                            KeptOrReplacedAxes(Children(e)[i], <<e.kind>> \o par)])

\* C5 (amended): as claimed, except that a child of a Concatenation of
\* which nothing is left is replaced by one new unnamed axis of value 1,
\* which stands in the result at the place of that child.
C5_RemovesTrivialAxesKeepingConcatenationChildren ==
    After("remove_unnamed_trivial_axes") =>
        /\ ~IsRaise(Result)
        /\ get_axes(Result) = KeptOrReplacedAxes(arg, <<>>)

\* C5 witness: remove_unnamed_trivial_axes replaced the child "1" (a List
\* of one unnamed axis of value 1) of a Concatenation by a new unnamed axis
\* of value 1.
C5_Witness ==
    /\ After("remove_unnamed_trivial_axes")
    /\ ~IsRaise(Result)
    /\ Len(all(arg)) = MaxNodes
    /\ \E i \in 1..Len(all(arg)) :
          /\ all(arg)[i].kind = "Concatenation"
          /\ all(arg)[i].children[1] = List(<<Axis(NoName, 1)>>)
    /\ \E i \in 1..Len(all(Result)) :
          /\ all(Result)[i].kind = "Concatenation"
          /\ all(Result)[i].children[1] = Axis(NoName, 1)

\* C7 (as claimed): if t holds no Marker, mark(t, p) holds no Marker
\* inside another Marker.
C7_MarkNeverNests ==
    (After("mark") /\ ~HasKind(arg, "Marker")) => (~IsRaise(Result) /\ ~NestedMarker(Result))

\* C8: decompose(t) holds no Composition outside a Concatenation, and its
\* axes outside Concatenations and its outermost Concatenation subtrees
\* are those of t, in the same order and structurally equal.
C8_DecomposeUngroups ==
    After("decompose") =>
        /\ ~IsRaise(Result)
        /\ ~CompositionOutside(Result)
        /\ OuterLeaves(Result) = OuterLeaves(arg)

\* C8 witness: decompose was called on a Composition that holds a
\* Concatenation with a Composition inside, and kept that Concatenation.
C8_Witness ==
    /\ After("decompose")
    /\ arg.kind = "Composition"
    /\ Result.kind = "Concatenation"
    /\ \E i \in 1..Len(OuterLeaves(Result)) :
          /\ OuterLeaves(Result)[i].kind = "Concatenation"
          /\ HasKind(OuterLeaves(Result)[i], "Composition")

\* C9: demark(t) holds no Marker at any depth, and demark of it is
\* structurally equal to it.
C9_DemarkIdempotent ==
    After("demark") =>
        /\ ~IsRaise(Result)
        /\ ~HasKind(Result, "Marker")
        /\ demark(Result) = Result

\* C9 witness: demark was called on a tree with a Marker that is a child
\* of a Concatenation and a Marker inside a Composition.
C9_Witness ==
    /\ After("demark")
    /\ \E i \in 1..Len(all(arg)) :
          /\ all(arg)[i].kind = "Concatenation"
          /\ all(arg)[i].children[1].kind = "Marker"
    /\ \E i \in 1..Len(all(arg)) :
          /\ all(arg)[i].kind = "Composition"
          /\ HasKind(all(arg)[i].inner, "Marker")
    /\ ~HasKind(Result, "Marker")

(* The claims about solve. *)

Returned == solved.kind = "Return"

Raised(exc) == solved.kind = "Raise" /\ solved.exc = exc

RECURSIVE SameStructure(_, _)
\* The concrete tree c has the kinds and the structure of the symbolic
\* tree e, an Axis of the same name standing for each of its axes.
SameStructure(e, c) ==
    CASE e.kind = "NamedAxis" -> c.kind = "Axis" /\ c.name = e.name
      [] e.kind = "UnnamedAxis" -> c.kind = "Axis" /\ is_unnamed(c)
      [] OTHER ->
            /\ c.kind = e.kind
            /\ Len(Children(c)) = Len(e.children)
            /\ \A i \in 1..Len(e.children) : SameStructure(e.children[i], Children(c)[i])

RECURSIVE iter(_)
\* __iter__ of a concrete tree: its positions.
iter(e) ==
    IF e.kind \in {"List", "Marker"}
    THEN Flatten([i \in 1..Len(Children(e)) |-> iter(Children(e)[i])])
    ELSE <<e>>

RECURSIVE Extent(_)
\* The size of what a concrete tree spans, computed exactly from its axes.
Extent(e) ==
    CASE e.kind = "Axis" -> e.value
      [] e.kind = "Concatenation" -> SeqSum([i \in 1..Len(e.children) |-> Extent(e.children[i])])
      [] OTHER -> SeqProd([i \in 1..Len(Children(e)) |-> Extent(Children(e)[i])])

ReturnedAxes == Flatten([r \in 1..Len(solved.expressions) |-> get_axes(solved.expressions[r])])

\* C2: when solve returns, each returned tree has the kinds and structure
\* of its root, axes of the same name have the same value wherever they
\* stand, and the positions of a root whose shape was given have, in
\* order, the sizes of that shape.
C2_SolveConsistent ==
    Returned =>
        /\ Len(solved.expressions) = Len(expressions)
        /\ \A r \in 1..Len(expressions) : SameStructure(expressions[r], solved.expressions[r])
        /\ \A i, j \in 1..Len(ReturnedAxes) :
              (~is_unnamed(ReturnedAxes[i]) /\ ReturnedAxes[i].name = ReturnedAxes[j].name)
                  => ReturnedAxes[i].value = ReturnedAxes[j].value
        /\ \A r \in 1..Len(expressions) :
              values[r].some =>
                  [j \in 1..Len(iter(solved.expressions[r])) |-> Extent(iter(solved.expressions[r])[j])]
                      = values[r].shape

\* C2 witness: "a b" and "b c" with the shapes (2, 3) and (3, 5) resolve
\* to a = 2, b = 3, c = 5.
C2_Witness ==
    /\ Returned
    /\ expressions = << Node("List", <<NamedAxis("a"), NamedAxis("b")>>),
                        Node("List", <<NamedAxis("b"), NamedAxis("c")>>) >>
    /\ values = <<Shape(<<2, 3>>), Shape(<<3, 5>>)>>
    /\ solved.expressions = << List(<<Axis("a", 2), Axis("b", 3)>>),
                               List(<<Axis("b", 3), Axis("c", 5)>>) >>

ShapeLengthMismatch ==
    /\ solved.kind # "NotCalled"
    /\ Len(values) = Len(expressions)
    /\ \E r \in 1..Len(expressions) :
          values[r].some /\ Len(values[r].shape) # sym_len(expressions[r])

\* C3 (as claimed): called with a shape whose length differs from the
\* number of positions of its root, solve raises SolveValueException
\* carrying the roots and the shapes.
C3_MismatchIsSolveFailure ==
    ShapeLengthMismatch =>
        /\ Raised("SolveValueException")
        /\ solved.expressions = expressions
        /\ solved.values = values

\* The call got past the checks of its arguments: the solver is run.
Solvable ==
    /\ solved.kind # "NotCalled"
    /\ Len(values) = Len(expressions)
    /\ ~ShapeLengthMismatch

AxisNodes == SelectSeq(AllNodes(expressions), LAMBDA n : n.expr.kind \in {"NamedAxis", "UnnamedAxis"})

\* The names of the axes that the solver's valuation k leaves without a
\* value.
UnresolvedNames(k) ==
    {AxisNodes[i].expr.name : i \in {j \in 1..Len(AxisNodes) :
        AxisNodes[j].expr.kind = "NamedAxis" /\ k[NodeVariable(AxisNodes[j].id)] = Unknown}}

\* C4: when an axis is left without a value or with a value <= 0, solve
\* raises SolveValueException and returns no tree; for axes without a
\* value the message names exactly their names, in the singular for one
\* and in the plural for several; every axis of a returned tree is >= 1.
C4_SolveAllOrNothing ==
    /\ Solvable =>
          LET s == solver_solve(Equations(expressions, values))
              unresolved == UnresolvedNames(s.k)
          IN
          s.ok =>
            /\ (\E i \in 1..Len(AxisNodes) : s.k[NodeVariable(AxisNodes[i].id)] <= 0)
                    => Raised("SolveValueException")
            /\ unresolved # {} =>
                    /\ solved.message.axes = unresolved
                    /\ solved.message.text =
                          IF Cardinality(unresolved) = 1
                          THEN "Found no unique solution for"
                          ELSE "Found no unique solutions for"
    /\ Returned => \A i \in 1..Len(ReturnedAxes) : ReturnedAxes[i].value >= 1

\* C4 witness: solve raised for two axes without a value, named in the
\* plural.
C4_Witness ==
    /\ Raised("SolveValueException")
    /\ solved.message.text = "Found no unique solutions for"
    /\ Solvable
    /\ LET s == solver_solve(Equations(expressions, values)) IN
       s.ok /\ Cardinality(UnresolvedNames(s.k)) = 2

\* C6 (as claimed): the value stored in a constructed List is the exact
\* product of the values of its children, and the value stored in a
\* constructed Concatenation is their exact sum.
C6_ValueIsExact ==
    /\ node.kind = "List" => node.value = PyInt(FALSE, ProdAll(node.children))
    /\ node.kind = "Concatenation" => node.value = PyInt(FALSE, SumAll(node.children))

\* C10 (as claimed): get_marked(t) returns a tree for every tree t.
C10_GetMarkedSucceeds ==
    After("get_marked") => ~IsRaise(Result)

\* The objects of the tree t, as it was when first handed to an operation.
InputObjects ==
    IF tree = NoObject THEN {}
    ELSE {all_obj(before, tree)[i] : i \in 1..Len(all_obj(before, tree))}

\* The objects of the trees the calls returned.
ResultObjects ==
    UNION {{all_obj(heap, results[c].ids[1])[i] : i \in 1..Len(all_obj(heap, results[c].ids[1]))} :
              c \in {d \in 1..Len(results) : results[d].exc = ""}}

\* C11 (as claimed): after any calls of the rewrite operations on a tree t,
\* every object of t has the value, name, children and parent it had
\* before the calls, no object of a result is an object of t, and a
\* parent reference that was assigned is never assigned again.
C11_RewriteLeavesInputAlone ==
    /\ [](\A n \in InputObjects : heap[n] = before[n])
    /\ [](InputObjects \cap ResultObjects = {})
    /\ [][\A n \in 1..Len(heap) :
            heap[n].parent # NoObject => heap'[n].parent = heap[n].parent]_vars

====
